---- MODULE Spec2Model ----
(***************************************************************************)
(* Model of the IC50 training harness:                                     *)
(*   - EarlyStopper            (src/src/train.py, lines 10-25)             *)
(*   - IC50BertTrainer.train   (src/src/train.py, lines 28-123)            *)
(*   - ProteinSMILESDataset    (src/dataset.py,   lines 15-31)             *)
(*                                                                         *)
(* Losses are Python floats.  A finite float is modelled as a fixed-point  *)
(* integer counting units of 1e-5 (4.06 is 406000); the two non-finite     *)
(* values a loss can take, +inf and nan, are separate kinds with the       *)
(* comparison rules of IEEE-754 (every ordered comparison with nan is      *)
(* false).                                                                 *)
(***************************************************************************)
EXTENDS Integers, Sequences, FiniteSets, TLC

VARIABLES
    \* ---- EarlyStopper fields (src/src/train.py:12-15)
    patience, min_delta, counter, min_validation_loss,
    \* ---- history of the early_stop calls made on a bare EarlyStopper
    losses, rets,
    \* ---- which trainer class the instance is, and its fields
    \* ---- (src/src/train.py:43-50, src/train.py:23-27)
    variant, num_epochs, dataloader, val_dataloader,
    \* ---- locals of one train() call (src/src/train.py:59-114,
    \* ---- src/train.py:41-74)
    pc, epoch, batch_i, total_loss, val_total_loss,
    train_episode_loss, val_episode_loss, stop_loss, avg_episode_losses,
    average_loss, plain_losses,
    \* ---- bookkeeping of the train() calls: calls started, early_stop
    \* ---- queries of this call, the value last passed to early_stop, the
    \* ---- epoch (1-based) whose query returned True (0: none), loop bodies
    \* ---- entered in this call, and each epoch's mean losses
    runs, queries, fed, stopped_at, epochs_run, train_hist, val_hist,
    \* ---- the optimizer and the gradients it owns (self.optimizer), the
    \* ---- operations of the batch processed last, and counts of this call:
    \* ---- optimizer steps, training batches, the training and validation
    \* ---- batches of the current epoch, and the optimizer and step count as
    \* ---- they were when the current validation pass began
    optimizer, batch_ops, steps, train_batches, train_done, val_done, val_entry,
    \* ---- ProteinSMILESDataset (src/dataset.py:16-31)
    df, idx, item, outcome,
    \* ---- TransformerCollate (src/dataset.py:34-49): whether the resource at
    \* ---- `path` loads, the tokenizer field, and the argument, the result
    \* ---- and the outcome of the last __call__
    path_loads, tokenizer, batches, encodings, collate_outcome

stopperVars == <<patience, min_delta, counter, min_validation_loss>>
historyVars == <<losses, rets>>
configVars == <<variant, num_epochs, dataloader, val_dataloader>>
localVars == <<pc, epoch, batch_i, total_loss, val_total_loss,
               train_episode_loss, val_episode_loss, stop_loss,
               avg_episode_losses, average_loss, plain_losses>>
bookVars == <<runs, queries, fed, stopped_at, epochs_run, train_hist, val_hist>>
optimVars == <<optimizer, batch_ops, steps, train_batches, train_done,
               val_done, val_entry>>
trainerVars == <<configVars, localVars, bookVars, optimVars>>
collateVars == <<path_loads, tokenizer, batches, encodings, collate_outcome>>
datasetVars == <<df, idx, item, outcome, collateVars>>
vars == <<stopperVars, historyVars, trainerVars, datasetVars>>

(***************************************************************************)
(* Bounds of the model.                                                    *)
(***************************************************************************)
\* early_stop calls made on a bare EarlyStopper
MaxCalls == 4
\* largest num_epochs a trainer is constructed with
MaxEpochs == 2
\* train() calls made on one trainer instance
MaxRuns == 6
\* rows of the backing table
MaxRows == 3
\* records in one list handed to TransformerCollate.__call__
MaxBatch == 2
\* the tokenizer's maximum sequence length, in tokens
ModelMaxLength == 6
\* largest num_epochs of a trainer whose first train() call is followed
\* alone, without a validation pass and with one
LongEpochs == 12
ValEpochs == 3

(***************************************************************************)
(* Python floats.                                                          *)
(***************************************************************************)
Fin(n) == [kind |-> "fin", val |-> n]
PosInf == [kind |-> "inf", val |-> 0]
NaN    == [kind |-> "nan", val |-> 0]

\* a < b
FLt(a, b) ==
    CASE a.kind = "nan" \/ b.kind = "nan" -> FALSE
      [] a.kind = "inf"                   -> FALSE
      [] b.kind = "inf"                   -> TRUE
      [] OTHER                            -> a.val < b.val

\* a > b
FGt(a, b) == FLt(b, a)

\* a + b
FAdd(a, b) ==
    CASE a.kind = "nan" \/ b.kind = "nan" -> NaN
      [] a.kind = "inf" \/ b.kind = "inf" -> PosInf
      [] OTHER                            -> Fin(a.val + b.val)

\* round(x, 4): the nearest multiple of 1e-4 (10 units), ties to even;
\* inf and nan round to themselves
Round4(x) ==
    IF x.kind # "fin" THEN x
    ELSE LET r == x.val % 10
             lo == x.val - r
         IN  CASE r < 5 -> Fin(lo)
               [] r > 5 -> Fin(lo + 10)
               [] OTHER -> IF (lo \div 10) % 2 = 0 THEN Fin(lo) ELSE Fin(lo + 10)

(***************************************************************************)
(* EarlyStopper                                                            *)
(***************************************************************************)
\* the loss values fed to a bare EarlyStopper: 5.0, 4.0, 4.06, 4.2, inf, nan
LossValues == {Fin(500000), Fin(400000), Fin(406000), Fin(420000), PosInf, NaN}
\* the configurations a bare EarlyStopper is constructed with
Patiences == {-1, 0, 1, 2}
MinDeltas == {Fin(-10000), Fin(0), Fin(10000)}

\* self.counter = 0; self.min_validation_loss = float('inf')
InitialBestZero == Fin(0)
InitialBest == PosInf

\* validation_loss < self.min_validation_loss
IsImprovementFlipped(v, best) == FLt(best, v)
IsImprovement(v, best) == FLt(v, best)

\* validation_loss > (self.min_validation_loss + self.min_delta)
IsRegressionNoDelta(v, best, delta) == FGt(v, best)
IsRegression(v, best, delta) == FGt(v, FAdd(best, delta))

\* self.counter >= self.patience
PatienceReachedStrict(cnt, pat) == cnt > pat
PatienceReached(cnt, pat) == cnt >= pat

\* self.counter += 1
NextCounterStuck(cnt) == IF cnt = 0 THEN 1 ELSE cnt
NextCounter(cnt) == cnt + 1

\* the fields after early_stop(v) and the value it returns
EarlyStopResult(best, cnt, pat, delta, v) ==
    IF IsImprovement(v, best)
    THEN [best |-> v, counter |-> 0, ret |-> FALSE]
    ELSE IF IsRegression(v, best, delta)
         THEN [best |-> best, counter |-> NextCounter(cnt),
               ret |-> PatienceReached(NextCounter(cnt), pat)]
         ELSE [best |-> best, counter |-> cnt, ret |-> FALSE]

\* EarlyStopper.__init__(patience, min_delta)
EarlyStopperInit(p, d) ==
    /\ patience = p
    /\ min_delta = d
    /\ counter = 0
    /\ min_validation_loss = InitialBest

\* EarlyStopper.early_stop(v): the update of the fields
early_stop(v) ==
    LET r == EarlyStopResult(min_validation_loss, counter, patience, min_delta, v)
    IN  /\ min_validation_loss' = r.best
        /\ counter' = r.counter
        /\ UNCHANGED <<patience, min_delta>>

\* what early_stop(v) returns in the current state
early_stop_ret(v) ==
    EarlyStopResult(min_validation_loss, counter, patience, min_delta, v).ret

(***************************************************************************)
(* A bare EarlyStopper fed a stream of losses.                             *)
(***************************************************************************)
Unset == [kind |-> "unset", val |-> 0]
NoLoader == [present |-> FALSE, len |-> 0]
Loader(n) == [present |-> TRUE, len |-> n]
NoLosses == [Train |-> <<>>, Validation |-> <<>>]
\* the epochs a train() call can have
HistEpochs == IF MaxEpochs > LongEpochs THEN MaxEpochs ELSE LongEpochs
NoHist == [e \in 1..HistEpochs |-> Unset]
\* a new optimizer: gradients accumulated from no batch, no step applied yet
\* (grad: batches whose gradients are accumulated; zeroed: zero_grad calls
\* since the last step; zeroed_at_backward: that count at the last backward;
\* applied: batches whose accumulated gradients the last step applied)
OptimizerFresh == [grad |-> 0, zeroed |-> 0, zeroed_at_backward |-> 0, applied |-> 0]

\* the locals and the bookkeeping before the first train() call
TrainerFresh ==
    /\ epoch = 0
    /\ batch_i = 0
    /\ total_loss = 0
    /\ val_total_loss = 0
    /\ train_episode_loss = Unset
    /\ val_episode_loss = Unset
    /\ stop_loss = Unset
    /\ avg_episode_losses = NoLosses
    /\ average_loss = Unset
    /\ plain_losses = <<>>
    /\ runs = 0
    /\ queries = 0
    /\ fed = Unset
    /\ stopped_at = 0
    /\ epochs_run = 0
    /\ train_hist = NoHist
    /\ val_hist = NoHist
    /\ optimizer = OptimizerFresh
    /\ batch_ops = <<>>
    /\ steps = 0
    /\ train_batches = 0
    /\ train_done = 0
    /\ val_done = 0
    /\ val_entry = Unset

\* the trainer's variables while no trainer exists
TrainerIdle ==
    /\ variant = "none"
    /\ num_epochs = 0
    /\ dataloader = Loader(0)
    /\ val_dataloader = NoLoader
    /\ pc = "none"
    /\ TrainerFresh

\* the collate function's variables while none exists
CollateIdle ==
    /\ path_loads = FALSE
    /\ tokenizer = "none"
    /\ batches = <<>>
    /\ encodings = Unset
    /\ collate_outcome = "none"

\* the dataset's variables while no dataset exists
DatasetIdle ==
    /\ df = <<>>
    /\ idx = 0
    /\ item = Unset
    /\ outcome = "none"
    /\ CollateIdle

InitStopper ==
    /\ \E p \in Patiences, d \in MinDeltas : EarlyStopperInit(p, d)
    /\ losses = <<>>
    /\ rets = <<>>
    /\ TrainerIdle
    /\ DatasetIdle

\* one call early_stop(v) on the bare EarlyStopper
Observe ==
    /\ Len(losses) < MaxCalls
    /\ \E v \in LossValues :
          /\ early_stop(v)
          /\ losses' = Append(losses, v)
          /\ rets' = Append(rets, early_stop_ret(v))
    /\ UNCHANGED <<trainerVars, datasetVars>>

NextStopper == Observe

SpecStopper == InitStopper /\ [][NextStopper]_vars

(***************************************************************************)
(* The trainers.  One trainer instance, on which train() is called up to   *)
(* MaxRuns times: an IC50BertTrainer of src/src/train.py (validation and   *)
(* early stopping, variant "early_stop") or of src/train.py (neither,      *)
(* variant "plain").  The model, the criterion and the optimizer are       *)
(* collaborators: each batch's loss.item() is an input.                    *)
(***************************************************************************)
\* EarlyStopper(patience=10, min_delta=0.05)
TrainerPatience == 10
TrainerMinDelta == Fin(5000)

\* the numbers of batches a DataLoader yields per pass
LoaderSizes == {0, 1, 2}
\* loss.item() of one batch: 4.00002 or 4.20006
BatchLosses == {400002, 420006}

\* bool(loader) for a DataLoader | None: None is falsy, and a DataLoader,
\* which defines __len__ and no __bool__, is falsy when it has no batch
Truthy(dl) == dl.present /\ dl.len # 0

\* total / len(loader) for len(loader) > 0, in units of 1e-5
Mean(total, n) == Fin(total \div n)

\* avg_episode_losses[key].append(round(loss, 4))
RecordLossFirst(d, key, loss) == [d EXCEPT ![key] = <<Round4(loss)>> \o @]
RecordLoss(d, key, loss) == [d EXCEPT ![key] = Append(@, Round4(loss))]

\* the effect of one operation on the optimizer and its gradients: the
\* forward pass and the criterion compute values and touch neither
ApplyOp(o, op) ==
    CASE op = "zero_grad" -> [o EXCEPT !.grad = 0, !.zeroed = @ + 1]
      [] op = "backward"  -> [o EXCEPT !.grad = @ + 1,
                                       !.zeroed_at_backward = o.zeroed]
      [] op = "step"      -> [o EXCEPT !.applied = o.grad, !.zeroed = 0]
      [] OTHER            -> o

\* the operations ops[i..] applied in order
RECURSIVE RunOps(_, _, _)
RunOps(o, ops, i) ==
    IF i > Len(ops) THEN o ELSE RunOps(ApplyOp(o, ops[i]), ops, i + 1)

\* how many times op occurs in ops
CountOp(ops, op) == Cardinality({i \in 1..Len(ops) : ops[i] = op})

\* the body of `for batch in tqdm_dataloader` of src/src/train.py:
\* optimizer.zero_grad(), model(...), criterion(...), loss.backward(),
\* optimizer.step()
TrainOpsZeroAfterBackward == <<"forward", "loss", "backward", "zero_grad", "step">>
TrainOps == <<"zero_grad", "forward", "loss", "backward", "step">>

\* the same body in src/train.py
PlainTrainOps == <<"zero_grad", "forward", "loss", "backward", "step">>

\* the body of `for val_batch in self.val_dataloader` under torch.no_grad():
\* model(...), criterion(...)
ValOpsWithStep == <<"forward", "loss", "backward", "step">>
ValOps == <<"forward", "loss">>

\* `for batch in loader` ends when the loader has yielded all len batches
LoaderExhaustedEarly(i, dl) == i = dl.len \/ i >= 1
LoaderExhausted(i, dl) == i = dl.len

\* IC50BertTrainer.__init__ of src/src/train.py
InitEarlyStopTrainer ==
    /\ variant = "early_stop"
    /\ num_epochs \in 0..MaxEpochs
    /\ dataloader \in {Loader(n) : n \in LoaderSizes}
    /\ val_dataloader \in {NoLoader} \cup {Loader(n) : n \in LoaderSizes}
    /\ EarlyStopperInit(TrainerPatience, TrainerMinDelta)

\* IC50BertTrainer.__init__ of src/train.py: no validation source and no
\* early stopper (the stopper's variables are idle)
InitPlainTrainer ==
    /\ variant = "plain"
    /\ num_epochs \in 0..MaxEpochs
    /\ dataloader \in {Loader(n) : n \in LoaderSizes}
    /\ val_dataloader = NoLoader
    /\ patience = 0
    /\ min_delta = Fin(0)
    /\ counter = 0
    /\ min_validation_loss = InitialBest

InitTrain ==
    /\ InitEarlyStopTrainer \/ InitPlainTrainer
    /\ pc = "idle"
    /\ TrainerFresh
    /\ losses = <<>>
    /\ rets = <<>>
    /\ DatasetIdle

\* the bookkeeping of a new train() call
NewRun ==
    /\ runs' = runs + 1
    /\ queries' = 0
    /\ fed' = Unset
    /\ stopped_at' = 0
    /\ epochs_run' = 0
    /\ train_hist' = NoHist
    /\ val_hist' = NoHist
    /\ steps' = 0
    /\ train_batches' = 0
    /\ train_done' = 0
    /\ val_done' = 0
    /\ val_entry' = Unset
    /\ UNCHANGED <<optimizer, batch_ops>>

\* `for epoch in range(self.num_epochs)`: whether the loop body runs for the
\* 0-based index e
LoopContinuesInclusive(e, n) == e <= n
LoopContinues(e, n) == e < n

\* train() is called: avg_episode_losses = {"Train": [], "Validation": []}
TrainCall ==
    /\ variant = "early_stop"
    /\ pc \in {"idle", "done"}
    /\ runs < MaxRuns
    /\ NewRun
    /\ avg_episode_losses' = NoLosses
    /\ epoch' = 0
    /\ pc' = "for_epoch"
    /\ UNCHANGED <<batch_i, total_loss, val_total_loss, train_episode_loss,
                   val_episode_loss, stop_loss, average_loss, plain_losses>>
    /\ UNCHANGED <<stopperVars, historyVars, configVars, datasetVars>>

\* for epoch in range(self.num_epochs): total_loss = 0, or the return
ForEpoch ==
    /\ pc = "for_epoch"
    /\ IF LoopContinues(epoch, num_epochs)
       THEN /\ total_loss' = 0
            /\ batch_i' = 0
            /\ epochs_run' = epochs_run + 1
            /\ train_done' = 0
            /\ val_done' = 0
            /\ val_entry' = Unset
            /\ pc' = "for_batch"
       ELSE /\ pc' = "done"
            /\ UNCHANGED <<total_loss, batch_i, epochs_run, train_done,
                           val_done, val_entry>>
    /\ UNCHANGED <<optimizer, batch_ops, steps, train_batches>>
    /\ UNCHANGED <<epoch, val_total_loss, train_episode_loss, val_episode_loss,
                   stop_loss, avg_episode_losses, average_loss, plain_losses>>
    /\ UNCHANGED <<runs, queries, fed, stopped_at, train_hist, val_hist>>
    /\ UNCHANGED <<stopperVars, historyVars, configVars, datasetVars>>

\* one training batch: zero_grad, forward, loss, backward, step,
\* total_loss += loss.item()
TrainBatch ==
    /\ pc = "for_batch"
    /\ batch_i < dataloader.len
    /\ optimizer' = RunOps(optimizer, TrainOps, 1)
    /\ batch_ops' = TrainOps
    /\ steps' = steps + CountOp(TrainOps, "step")
    /\ \E loss \in BatchLosses : total_loss' = total_loss + loss
    /\ batch_i' = batch_i + 1
    /\ train_batches' = train_batches + 1
    /\ train_done' = train_done + 1
    /\ UNCHANGED <<val_done, val_entry>>
    /\ UNCHANGED <<pc, epoch, val_total_loss, train_episode_loss,
                   val_episode_loss, stop_loss, avg_episode_losses,
                   average_loss, plain_losses>>
    /\ UNCHANGED <<stopperVars, historyVars, configVars, bookVars, datasetVars>>

\* after the training batches: train_episode_loss = total_loss / len(...),
\* which raises ZeroDivisionError for an empty dataloader; stop_loss; the
\* append; and the test `if self.val_dataloader:`
TrainEpisode ==
    /\ pc = "for_batch"
    /\ LoaderExhausted(batch_i, dataloader)
    /\ IF dataloader.len = 0
       THEN /\ pc' = "raised"
            /\ UNCHANGED <<train_episode_loss, stop_loss, avg_episode_losses,
                           val_total_loss, batch_i, train_hist, val_entry>>
       ELSE /\ train_episode_loss' = Mean(total_loss, dataloader.len)
            /\ stop_loss' = train_episode_loss'
            /\ avg_episode_losses' =
                   RecordLoss(avg_episode_losses, "Train", train_episode_loss')
            /\ train_hist' = [train_hist EXCEPT ![epoch + 1] = train_episode_loss']
            /\ IF Truthy(val_dataloader)
               THEN /\ val_total_loss' = 0
                    /\ batch_i' = 0
                    /\ val_entry' = [optimizer |-> optimizer, steps |-> steps]
                    /\ pc' = "for_val_batch"
               ELSE /\ pc' = "epoch_end"
                    /\ UNCHANGED <<val_total_loss, batch_i, val_entry>>
    /\ UNCHANGED <<epoch, total_loss, val_episode_loss, average_loss,
                   plain_losses>>
    /\ UNCHANGED <<runs, queries, fed, stopped_at, epochs_run, val_hist>>
    /\ UNCHANGED <<optimizer, batch_ops, steps, train_batches, train_done,
                   val_done>>
    /\ UNCHANGED <<stopperVars, historyVars, configVars, datasetVars>>

\* one validation batch under no_grad: forward, loss,
\* val_total_loss += val_loss.item()
ValBatch ==
    /\ pc = "for_val_batch"
    /\ batch_i < val_dataloader.len
    /\ optimizer' = RunOps(optimizer, ValOps, 1)
    /\ batch_ops' = ValOps
    /\ steps' = steps + CountOp(ValOps, "step")
    /\ \E loss \in BatchLosses : val_total_loss' = val_total_loss + loss
    /\ batch_i' = batch_i + 1
    /\ val_done' = val_done + 1
    /\ UNCHANGED <<train_batches, train_done, val_entry>>
    /\ UNCHANGED <<pc, epoch, total_loss, train_episode_loss, val_episode_loss,
                   stop_loss, avg_episode_losses, average_loss, plain_losses>>
    /\ UNCHANGED <<stopperVars, historyVars, configVars, bookVars, datasetVars>>

\* stop_loss after a validation pass: stop_loss = val_episode_loss
StopLossKeptTrain(train_loss, val_loss) == train_loss
StopLossAfterValidation(train_loss, val_loss) == val_loss

\* after the validation batches: val_episode_loss, stop_loss, the append
ValEpisode ==
    /\ pc = "for_val_batch"
    /\ LoaderExhausted(batch_i, val_dataloader)
    /\ val_episode_loss' = Mean(val_total_loss, val_dataloader.len)
    /\ stop_loss' = StopLossAfterValidation(train_episode_loss, val_episode_loss')
    /\ avg_episode_losses' =
           RecordLoss(avg_episode_losses, "Validation", val_episode_loss')
    /\ val_hist' = [val_hist EXCEPT ![epoch + 1] = val_episode_loss']
    /\ pc' = "epoch_end"
    /\ UNCHANGED <<epoch, batch_i, total_loss, val_total_loss,
                   train_episode_loss, average_loss, plain_losses>>
    /\ UNCHANGED <<runs, queries, fed, stopped_at, epochs_run, train_hist>>
    /\ UNCHANGED <<stopperVars, historyVars, configVars, optimVars, datasetVars>>

\* `if self.early_stopper.early_stop(stop_loss): break`
BreaksNever(r) == FALSE
BreaksOn(r) == r

\* end of epoch: the early stopper is queried with stop_loss; True breaks out
\* of the loop and train() returns, False goes on to the next epoch
EndOfEpoch ==
    /\ pc = "epoch_end"
    /\ early_stop(stop_loss)
    /\ queries' = queries + 1
    /\ fed' = stop_loss
    /\ stopped_at' = IF early_stop_ret(stop_loss) /\ stopped_at = 0
                     THEN epoch + 1
                     ELSE stopped_at
    /\ IF BreaksOn(early_stop_ret(stop_loss))
       THEN /\ pc' = "done"
            /\ UNCHANGED epoch
       ELSE /\ epoch' = epoch + 1
            /\ pc' = "for_epoch"
    /\ UNCHANGED <<batch_i, total_loss, val_total_loss, train_episode_loss,
                   val_episode_loss, stop_loss, avg_episode_losses,
                   average_loss, plain_losses>>
    /\ UNCHANGED <<runs, epochs_run, train_hist, val_hist>>
    /\ UNCHANGED <<historyVars, configVars, optimVars, datasetVars>>

\* src/train.py: train() is called: avg_episode_losses = []
PlainTrainCall ==
    /\ variant = "plain"
    /\ pc \in {"idle", "done"}
    /\ runs < MaxRuns
    /\ NewRun
    /\ plain_losses' = <<>>
    /\ epoch' = 0
    /\ pc' = "plain_for_epoch"
    /\ UNCHANGED <<batch_i, total_loss, val_total_loss, train_episode_loss,
                   val_episode_loss, stop_loss, avg_episode_losses,
                   average_loss>>
    /\ UNCHANGED <<stopperVars, historyVars, configVars, datasetVars>>

\* src/train.py: for epoch in range(self.num_epochs): total_loss = 0, or the
\* return
PlainForEpoch ==
    /\ pc = "plain_for_epoch"
    /\ IF LoopContinues(epoch, num_epochs)
       THEN /\ total_loss' = 0
            /\ batch_i' = 0
            /\ epochs_run' = epochs_run + 1
            /\ train_done' = 0
            /\ val_done' = 0
            /\ val_entry' = Unset
            /\ pc' = "plain_for_batch"
       ELSE /\ pc' = "done"
            /\ UNCHANGED <<total_loss, batch_i, epochs_run, train_done,
                           val_done, val_entry>>
    /\ UNCHANGED <<optimizer, batch_ops, steps, train_batches>>
    /\ UNCHANGED <<epoch, val_total_loss, train_episode_loss, val_episode_loss,
                   stop_loss, avg_episode_losses, average_loss, plain_losses>>
    /\ UNCHANGED <<runs, queries, fed, stopped_at, train_hist, val_hist>>
    /\ UNCHANGED <<stopperVars, historyVars, configVars, datasetVars>>

\* src/train.py: one training batch
PlainTrainBatch ==
    /\ pc = "plain_for_batch"
    /\ batch_i < dataloader.len
    /\ optimizer' = RunOps(optimizer, PlainTrainOps, 1)
    /\ batch_ops' = PlainTrainOps
    /\ steps' = steps + CountOp(PlainTrainOps, "step")
    /\ \E loss \in BatchLosses : total_loss' = total_loss + loss
    /\ batch_i' = batch_i + 1
    /\ train_batches' = train_batches + 1
    /\ train_done' = train_done + 1
    /\ UNCHANGED <<val_done, val_entry>>
    /\ UNCHANGED <<pc, epoch, val_total_loss, train_episode_loss,
                   val_episode_loss, stop_loss, avg_episode_losses,
                   average_loss, plain_losses>>
    /\ UNCHANGED <<stopperVars, historyVars, configVars, bookVars, datasetVars>>

\* src/train.py: average_loss = total_loss / len(self.dataloader), which
\* raises ZeroDivisionError for an empty dataloader, and the append
PlainEpisode ==
    /\ pc = "plain_for_batch"
    /\ LoaderExhausted(batch_i, dataloader)
    /\ IF dataloader.len = 0
       THEN /\ pc' = "raised"
            /\ UNCHANGED <<average_loss, plain_losses, epoch, train_hist>>
       ELSE /\ average_loss' = Mean(total_loss, dataloader.len)
            /\ plain_losses' = Append(plain_losses, Round4(average_loss'))
            /\ train_hist' = [train_hist EXCEPT ![epoch + 1] = average_loss']
            /\ epoch' = epoch + 1
            /\ pc' = "plain_for_epoch"
    /\ UNCHANGED <<batch_i, total_loss, val_total_loss, train_episode_loss,
                   val_episode_loss, stop_loss, avg_episode_losses>>
    /\ UNCHANGED <<runs, queries, fed, stopped_at, epochs_run, val_hist>>
    /\ UNCHANGED <<stopperVars, historyVars, configVars, optimVars, datasetVars>>

\* the steps of a running train() call
TrainStep ==
    \/ ForEpoch
    \/ TrainBatch
    \/ TrainEpisode
    \/ ValBatch
    \/ ValEpisode
    \/ EndOfEpoch
    \/ PlainForEpoch
    \/ PlainTrainBatch
    \/ PlainEpisode

NextTrain == TrainCall \/ PlainTrainCall \/ TrainStep

SpecTrain == InitTrain /\ [][NextTrain]_vars

\* the thread running train() keeps running: every batch source is finite and
\* every forward, backward and step call returns
FairSpecTrain == SpecTrain /\ WF_vars(TrainStep)

(***************************************************************************)
(* The first train() call of an IC50BertTrainer of src/src/train.py,       *)
(* followed alone over up to LongEpochs epochs, long enough for the early  *)
(* stopper's patience of 10 to run out within one call.                    *)
(***************************************************************************)
\* IC50BertTrainer.__init__ of src/src/train.py: up to LongEpochs epochs
\* with at most one training batch each and no validation pass (no source or
\* an empty one), or up to ValEpochs epochs with one validation batch each
InitFirstCall ==
    /\ variant = "early_stop"
    /\ \/ /\ num_epochs \in 0..LongEpochs
          /\ dataloader \in {Loader(0), Loader(1)}
          /\ val_dataloader \in {NoLoader, Loader(0)}
       \/ /\ num_epochs \in 0..ValEpochs
          /\ dataloader = Loader(1)
          /\ val_dataloader = Loader(1)
    /\ EarlyStopperInit(TrainerPatience, TrainerMinDelta)
    /\ pc = "idle"
    /\ TrainerFresh
    /\ losses = <<>>
    /\ rets = <<>>
    /\ DatasetIdle

\* the first call of train() on the instance
FirstTrainCall == runs = 0 /\ TrainCall

NextFirstCall ==
    \/ FirstTrainCall
    \/ ForEpoch
    \/ TrainBatch
    \/ TrainEpisode
    \/ ValBatch
    \/ ValEpisode
    \/ EndOfEpoch

SpecFirstCall == InitFirstCall /\ [][NextFirstCall]_vars

(***************************************************************************)
(* ProteinSMILESDataset (src/dataset.py): a dataset over a table df, read  *)
(* by __getitem__.                                                         *)
(***************************************************************************)
\* a row of the table, by column name
Row(l, p, t) ==
    ("Ligand SMILES" :> l) @@ ("BindingDB Target Chain Sequence" :> p)
        @@ ("IC50 (nM)" :> t)
\* the rows a table is built from
Rows == {Row("CCO", "MKV", 10), Row("CCN", "MAL", 20)}
\* the tables: up to MaxRows rows
Tables == UNION {[1..n -> Rows] : n \in 0..MaxRows}
\* the indices __getitem__ is called with
Indices == (0 - (MaxRows + 1))..(MaxRows + 1)

\* ProteinData(ligand, protein, target_ic50) built from a row's columns
ProteinDataSwapped(row) ==
    [ligand  |-> row["BindingDB Target Chain Sequence"],
     protein |-> row["Ligand SMILES"],
     ic50    |-> row["IC50 (nM)"]]
ProteinData(row) ==
    [ligand  |-> row["Ligand SMILES"],
     protein |-> row["BindingDB Target Chain Sequence"],
     ic50    |-> row["IC50 (nM)"]]

\* df.iloc[i] for an integer i: whether the position exists (a negative i
\* counts from the end), and the 1-based position it reads
ilocInBounds(d, i) == (0 - Len(d)) <= i /\ i < Len(d)
ilocPosition(d, i) == IF i >= 0 THEN i + 1 ELSE Len(d) + i + 1

\* ProteinSMILESDataset.__init__(df)
InitDataset ==
    /\ df \in Tables
    /\ idx = 0
    /\ item = Unset
    /\ outcome = "none"
    /\ CollateIdle
    /\ EarlyStopperInit(0, Fin(0))
    /\ losses = <<>>
    /\ rets = <<>>
    /\ TrainerIdle

\* ProteinSMILESDataset.__getitem__(i): the record, or iloc's IndexError
GetItem ==
    /\ \E i \in Indices :
          /\ idx' = i
          /\ IF ilocInBounds(df, i)
             THEN /\ item' = ProteinData(df[ilocPosition(df, i)])
                  /\ outcome' = "returned"
             ELSE /\ item' = Unset
                  /\ outcome' = "IndexError"
    /\ UNCHANGED df
    /\ UNCHANGED <<stopperVars, historyVars, trainerVars, collateVars>>

NextDataset == GetItem

SpecDataset == InitDataset /\ [][NextDataset]_vars

(***************************************************************************)
(* TransformerCollate (src/dataset.py).  A text is a sequence of symbols.  *)
(* The tokenizer is the collaborator loaded by AutoTokenizer: it encodes a *)
(* pair as [CLS] a [SEP] b [SEP], drops whitespace, accepts a text without *)
(* any token, truncates the longer text first and pads to the longest row  *)
(* of the batch.                                                           *)
(***************************************************************************)
\* the records handed to the collate function
CollateLigands == {<<>>, <<" ">>, <<"C">>, <<"C", "O">>}
CollateProteins == {<<" ">>, <<"M">>, <<"M", "K">>}
CollateRecords ==
    {[ligand |-> l, protein |-> q, ic50 |-> t] :
        l \in CollateLigands, q \in CollateProteins, t \in {10, 20}}
\* the lists of 1..MaxBatch records
RecordLists == UNION {[1..n -> CollateRecords] : n \in 1..MaxBatch}

\* the tokenizer's vocabulary
SpecialIds == [pad |-> 0, unk |-> 1, cls |-> 2, sep |-> 3]
TokenId(sym) ==
    CASE sym = "C" -> 4
      [] sym = "O" -> 5
      [] sym = "M" -> 6
      [] OTHER     -> SpecialIds.unk

\* the tokens of one text: whitespace yields no token
Tokenize(text) ==
    LET kept == SelectSeq(text, LAMBDA sym : sym # " ")
    IN  [i \in 1..Len(kept) |-> TokenId(kept[i])]

\* truncation=True: while the pair is too long for the maximum length (with
\* its three special tokens), drop the last token of the longer text, of the
\* second text on a tie
RECURSIVE TruncatePair(_, _)
TruncatePair(a, b) ==
    IF Len(a) + Len(b) + 3 <= ModelMaxLength \/ Len(a) + Len(b) = 0
    THEN <<a, b>>
    ELSE IF Len(a) > Len(b)
         THEN TruncatePair(SubSeq(a, 1, Len(a) - 1), b)
         ELSE TruncatePair(a, SubSeq(b, 1, Len(b) - 1))

\* one row of the encoding, before padding
EncodePair(ligand, protein) ==
    LET t == TruncatePair(Tokenize(ligand), Tokenize(protein))
        a == t[1]
        b == t[2]
    IN  [input_ids |-> <<SpecialIds.cls>> \o a \o <<SpecialIds.sep>> \o b
                          \o <<SpecialIds.sep>>,
         token_type_ids |-> [i \in 1..(Len(a) + 2) |-> 0]
                               \o [i \in 1..(Len(b) + 1) |-> 1],
         attention_mask |-> [i \in 1..(Len(a) + Len(b) + 3) |-> 1]]

\* padding=True: a row filled up to the length n
PadTo(row, fill, n) == row \o [i \in 1..(n - Len(row)) |-> fill]

\* the largest element of a non-empty set of numbers
MaxOf(S) == CHOOSE x \in S : \A y \in S : y <= x

\* self.tokenizer(ligands, proteins, padding=True, truncation=True,
\* return_tensors="pt"): one padded row per pair
TokenizerCall(ligands, proteins) ==
    LET rows == [i \in 1..Len(ligands) |-> EncodePair(ligands[i], proteins[i])]
        width == MaxOf({Len(rows[i].input_ids) : i \in 1..Len(rows)})
    IN  [input_ids |->
             [i \in 1..Len(rows) |-> PadTo(rows[i].input_ids, SpecialIds.pad, width)],
         token_type_ids |->
             [i \in 1..Len(rows) |-> PadTo(rows[i].token_type_ids, 0, width)],
         attention_mask |->
             [i \in 1..Len(rows) |-> PadTo(rows[i].attention_mask, 0, width)]]

\* torch.tensor(target_ic50) of target_ic50 = [item.ic50 for item in batches]
LabelsReversed(list) == [i \in 1..Len(list) |-> list[Len(list) + 1 - i].ic50]
Labels(list) == [i \in 1..Len(list) |-> list[i].ic50]

\* what TransformerCollate.__call__(list) returns
CollateResult(list) ==
    LET ligands == [i \in 1..Len(list) |-> list[i].ligand]
        proteins == [i \in 1..Len(list) |-> list[i].protein]
        enc == TokenizerCall(ligands, proteins)
    IN  [input_ids |-> enc.input_ids,
         token_type_ids |-> enc.token_type_ids,
         attention_mask |-> enc.attention_mask,
         labels |-> Labels(list)]

InitCollate ==
    /\ path_loads \in BOOLEAN
    /\ tokenizer = "none"
    /\ batches = <<>>
    /\ encodings = Unset
    /\ collate_outcome = "none"
    /\ df = <<>>
    /\ idx = 0
    /\ item = Unset
    /\ outcome = "none"
    /\ EarlyStopperInit(0, Fin(0))
    /\ losses = <<>>
    /\ rets = <<>>
    /\ TrainerIdle

\* TransformerCollate.__init__(path): AutoTokenizer.from_pretrained(path)
\* returns the tokenizer or raises, and then no collate function exists
CollateConstruct ==
    /\ tokenizer = "none"
    /\ tokenizer' = IF path_loads THEN "loaded" ELSE "error"
    /\ UNCHANGED <<path_loads, batches, encodings, collate_outcome>>
    /\ UNCHANGED <<df, idx, item, outcome>>
    /\ UNCHANGED <<stopperVars, historyVars, trainerVars>>

\* TransformerCollate.__call__(list) on a constructed collate function; the
\* call reads the tokenizer and keeps no state, so one call is followed
CollateCall ==
    /\ tokenizer = "loaded"
    /\ collate_outcome = "none"
    /\ \E list \in RecordLists :
          /\ batches' = list
          /\ encodings' = CollateResult(list)
    /\ collate_outcome' = "returned"
    /\ UNCHANGED <<path_loads, tokenizer>>
    /\ UNCHANGED <<df, idx, item, outcome>>
    /\ UNCHANGED <<stopperVars, historyVars, trainerVars>>

NextCollate == CollateConstruct \/ CollateCall

SpecCollate == InitCollate /\ [][NextCollate]_vars

(***************************************************************************)
(* Claims about EarlyStopper, checked under SpecStopper.                   *)
(***************************************************************************)
\* a step of SpecStopper that is one early_stop call
IsCall == Len(losses') = Len(losses) + 1
\* the argument and the return value of that call
CallArg == losses'[Len(losses')]
CallRet == rets'[Len(rets')]

\* C1: regression branch.  Whenever v is not below best_loss and
\* v > best_loss + min_delta, early_stop(v) increments counter by exactly 1,
\* leaves min_validation_loss unchanged and returns True iff the incremented
\* counter is >= patience.
C1_RegressionBranch ==
    [][ (/\ IsCall
         /\ ~FLt(CallArg, min_validation_loss)
         /\ FGt(CallArg, FAdd(min_validation_loss, min_delta)))
        => /\ counter' = counter + 1
           /\ min_validation_loss' = min_validation_loss
           /\ (CallRet <=> (counter' >= patience)) ]_vars

\* a regression that reaches patience: 4.0 then 4.2 with patience 1
C1_Witness ==
    /\ losses = <<Fin(400000), Fin(420000)>>
    /\ patience = 1
    /\ min_delta = Fin(10000)
    /\ counter = 1
    /\ min_validation_loss = Fin(400000)
    /\ rets = <<FALSE, TRUE>>

\* C2: improvement branch.  Whenever v < best_loss, after early_stop(v)
\* min_validation_loss equals v, counter equals 0 and the call returns
\* False, whatever patience and min_delta are.
C2_ImprovementBranch ==
    [][ (IsCall /\ FLt(CallArg, min_validation_loss))
        => /\ min_validation_loss' = CallArg
           /\ counter' = 0
           /\ CallRet = FALSE ]_vars

\* an improvement that resets a non-zero counter although counter >= patience:
\* 4.06, 4.2 (stale, STOP with patience 0), then 4.0
C2_Witness ==
    /\ losses = <<Fin(406000), Fin(420000), Fin(400000)>>
    /\ patience = 0
    /\ rets = <<FALSE, TRUE, FALSE>>
    /\ counter = 0
    /\ min_validation_loss = Fin(400000)

\* the plateau branch leaves the fields alone and returns False
PlateauFrame ==
    (/\ IsCall
     /\ ~FLt(CallArg, min_validation_loss)
     /\ ~FGt(CallArg, FAdd(min_validation_loss, min_delta)))
    => /\ counter' = counter
       /\ min_validation_loss' = min_validation_loss
       /\ CallRet = FALSE

\* the losses fed so far are all equal to the first one
ConstantLosses == \A i \in 1..Len(losses) : losses[i] = losses[1]
\* no call so far returned STOP
NeverStopped == \A i \in 1..Len(rets) : rets[i] = FALSE

\* C3 as stated: the plateau branch changes nothing and returns False, and a
\* loss sequence that stays constant after its first value never triggers STOP
\* (for every configuration).
C3_Original == [][PlateauFrame]_vars /\ [](ConstantLosses => NeverStopped)

\* C3 amended: the plateau branch changes nothing and returns False, and with
\* min_delta >= 0 a loss sequence that stays constant after its first value
\* never triggers STOP.
C3_PlateauBranch ==
    /\ [][PlateauFrame]_vars
    /\ []((~FLt(min_delta, Fin(0)) /\ ConstantLosses) => NeverStopped)

\* a loss strictly inside the tolerance (4.0 then 4.06 with min_delta 0.1), and
\* then the same loss again: nothing changes, with a patience of 1
C3_Witness ==
    /\ losses = <<Fin(400000), Fin(406000), Fin(406000)>>
    /\ min_delta = Fin(10000)
    /\ patience = 1
    /\ counter = 0
    /\ min_validation_loss = Fin(400000)
    /\ rets = <<FALSE, FALSE, FALSE>>

\* C4: the first early_stop call on a freshly constructed EarlyStopper returns
\* False for every configuration and every first loss value.
C4_FirstCallContinues == Len(rets) >= 1 => rets[1] = FALSE

\* a first call with a patience already reached by counter = 0
C4_Witness ==
    /\ Len(losses) = 1
    /\ patience = -1
    /\ losses[1] = Fin(420000)
    /\ rets = <<FALSE>>

\* the configuration and the loss sequence of C5
C5_Sequence == <<Fin(500000), Fin(400000), Fin(406000), Fin(420000)>>
C5_Config == patience = 2 /\ min_delta = Fin(0)

\* C5: patience=2, min_delta=0.0, losses [5.0, 4.0, 4.06, 4.2]: counter is 1
\* after 4.06 and 2 after 4.2, the first three calls return False and the
\* fourth returns True.
C5_Example ==
    C5_Config =>
        /\ losses = SubSeq(C5_Sequence, 1, 3)
              => counter = 1 /\ rets = <<FALSE, FALSE, FALSE>>
        /\ losses = C5_Sequence
              => counter = 2 /\ rets = <<FALSE, FALSE, FALSE, TRUE>>

\* the whole sequence of C5 has been fed
C5_Witness == C5_Config /\ losses = C5_Sequence /\ rets[4] = TRUE

(***************************************************************************)
(* Claims about train(), checked under SpecTrain and FairSpecTrain.        *)
(***************************************************************************)
\* a train() call is running; it has returned or raised
Running == pc \in {"for_epoch", "for_batch", "for_val_batch", "epoch_end",
                   "plain_for_epoch", "plain_for_batch"}
Terminal == pc \in {"done", "raised"}
TrainLosses == avg_episode_losses.Train
ValidationLosses == avg_episode_losses.Validation
Min(a, b) == IF a < b THEN a ELSE b

\* entry i of the returned lists is the rounded mean loss of epoch i
TrainAligned ==
    \A i \in 1..Len(TrainLosses) : TrainLosses[i] = Round4(train_hist[i])
ValidationAligned ==
    \A i \in 1..Len(ValidationLosses) : ValidationLosses[i] = Round4(val_hist[i])

\* C6 as stated: when the monitor first signals STOP at epoch k < num_epochs,
\* train() runs no epoch after k and returns exactly k training-loss entries,
\* the stopping epoch's included, and exactly k validation-loss entries when a
\* validation source is configured.
C6_Original ==
    (variant = "early_stop" /\ stopped_at > 0 /\ stopped_at < num_epochs)
    => /\ pc = "done"
       /\ epochs_run = stopped_at
       /\ Len(TrainLosses) = stopped_at
       /\ TrainLosses[stopped_at] = Round4(train_hist[stopped_at])
       /\ val_dataloader.present => Len(ValidationLosses) = stopped_at

\* C6 amended: ... and exactly k validation-loss entries when a validation
\* source with at least one batch is configured; with no validation source or
\* an empty one (falsy in `if self.val_dataloader`) the validation list is
\* empty.
C6_StopAtEpochK ==
    (variant = "early_stop" /\ stopped_at > 0 /\ stopped_at < num_epochs)
    => /\ pc = "done"
       /\ epochs_run = stopped_at
       /\ Len(TrainLosses) = stopped_at
       /\ TrainLosses[stopped_at] = Round4(train_hist[stopped_at])
       /\ Truthy(val_dataloader)
             => /\ Len(ValidationLosses) = stopped_at
                /\ ValidationLosses[stopped_at] = Round4(val_hist[stopped_at])
       /\ ~Truthy(val_dataloader) => ValidationLosses = <<>>

\* a call stopped at epoch 1 of 2, with a validation source of two batches
C6_Witness ==
    /\ variant = "early_stop"
    /\ num_epochs = 2
    /\ stopped_at = 1
    /\ val_dataloader = Loader(2)
    /\ pc = "done"
    /\ Len(TrainLosses) = 1
    /\ Len(ValidationLosses) = 1

\* what a train() call that ended without a STOP returned, for a validation
\* source that counts as configured when `configured` holds
ReturnsAllEpochs(configured) ==
    /\ pc = "done"
    /\ variant = "early_stop"
          => /\ Len(TrainLosses) = num_epochs
             /\ TrainAligned
             /\ configured
                   => Len(ValidationLosses) = num_epochs /\ ValidationAligned
             /\ ~configured => ValidationLosses = <<>>
    /\ variant = "plain"
          => /\ Len(plain_losses) = num_epochs
             /\ \A i \in 1..num_epochs : plain_losses[i] = Round4(train_hist[i])

\* C7 as stated: for any num_epochs = n >= 0, if the monitor never signals
\* STOP, train() returns exactly n training-loss entries; with a validation
\* source also exactly n validation-loss entries, entry i of both lists
\* belonging to epoch i; without one the validation list is empty.  The
\* trainer without early stopping always returns exactly n entries.
C7_Original ==
    (Terminal /\ stopped_at = 0) => ReturnsAllEpochs(val_dataloader.present)

\* C7 amended: the same for a training source with at least one batch and
\* with "validation source" read as one with at least one batch (none or an
\* empty one: the validation list is empty); with an empty training source
\* train() returns empty lists for n = 0 and raises ZeroDivisionError in the
\* first epoch for n >= 1, in both trainers.
C7_AllEpochsRecorded ==
    (Terminal /\ stopped_at = 0)
    => IF dataloader.len = 0 /\ num_epochs > 0
       THEN pc = "raised" /\ epochs_run = 1
       ELSE ReturnsAllEpochs(Truthy(val_dataloader))

\* a full run of 2 epochs with validation whose epochs differ
C7_Witness ==
    /\ variant = "early_stop"
    /\ pc = "done"
    /\ stopped_at = 0
    /\ num_epochs = 2
    /\ val_dataloader = Loader(1)
    /\ Len(TrainLosses) = 2
    /\ Len(ValidationLosses) = 2
    /\ TrainLosses[1] # TrainLosses[2]
    /\ ValidationLosses[1] # ValidationLosses[2]

\* the monitor has been queried once for every finished epoch of this call
QueriedOncePerEpoch ==
    queries = IF pc \in {"for_batch", "for_val_batch", "epoch_end", "raised"}
              THEN epochs_run - 1
              ELSE epochs_run

\* the value last passed to the monitor, for a validation source that counts
\* as configured when `configured` holds
FedLoss(configured) ==
    queries > 0
    => fed = IF configured THEN val_hist[queries] ELSE train_hist[queries]

\* C8 as stated: in every epoch the single value passed to the monitor is the
\* epoch's mean validation loss whenever a validation source is configured and
\* its mean training loss otherwise; the monitor is queried once per epoch.
C8_Original ==
    variant = "early_stop"
    => FedLoss(val_dataloader.present) /\ QueriedOncePerEpoch

\* C8 amended: ... the epoch's mean validation loss whenever a validation
\* source with at least one batch is configured, and its mean training loss
\* otherwise (no validation source, or an empty one).
C8_StopLoss ==
    variant = "early_stop"
    => FedLoss(Truthy(val_dataloader)) /\ QueriedOncePerEpoch

\* an epoch whose validation mean differs from its training mean has been fed
C8_Witness ==
    /\ variant = "early_stop"
    /\ queries = 2
    /\ val_dataloader = Loader(2)
    /\ fed = val_hist[2]
    /\ fed # train_hist[2]
    /\ fed # Round4(fed)

\* the number of epochs the loop is to run: up to the first STOP
EpochsDue ==
    Min(num_epochs, IF stopped_at > 0 THEN stopped_at ELSE num_epochs)

\* C9 as stated: train() always terminates; the loop ends after exactly
\* min(num_epochs, first epoch at which the monitor signals STOP) epochs and
\* never runs more than num_epochs epochs.
C9_Original ==
    /\ Running ~> Terminal
    /\ [](Terminal => epochs_run = EpochsDue)
    /\ [](epochs_run <= num_epochs)

\* C9 amended: train() always terminates and never runs more than num_epochs
\* epochs; it returns after exactly min(num_epochs, first STOP epoch) epochs
\* when the training source has at least one batch or num_epochs = 0, and
\* raises ZeroDivisionError in its first epoch otherwise.
C9_Terminates ==
    /\ Running ~> Terminal
    /\ [](Terminal => IF dataloader.len = 0 /\ num_epochs > 0
                      THEN pc = "raised" /\ epochs_run = 1
                      ELSE pc = "done" /\ epochs_run = EpochsDue)
    /\ [](epochs_run <= num_epochs)

\* a call that ended by an early stop before its last epoch
C9_Witness ==
    /\ pc = "done"
    /\ stopped_at = 1
    /\ num_epochs = 2
    /\ epochs_run = 1
    /\ dataloader = Loader(2)

(***************************************************************************)
(* Claims about ProteinSMILESDataset, checked under SpecDataset.           *)
(***************************************************************************)
\* the record __getitem__ returned is the one of the table's row at the
\* 1-based position p
IsRecordOfRow(p) ==
    /\ outcome = "returned"
    /\ item.ligand = df[p]["Ligand SMILES"]
    /\ item.protein = df[p]["BindingDB Target Chain Sequence"]
    /\ item.ic50 = df[p]["IC50 (nM)"]

\* C10 as stated: on a dataset of N rows __getitem__(i) returns the record of
\* row i for every i in [0, N), and fails with an IndexError for every integer
\* i outside [0, N), i >= N and every negative i.
C10_Original ==
    outcome # "none"
    => IF 0 <= idx /\ idx < Len(df)
       THEN IsRecordOfRow(idx + 1)
       ELSE outcome = "IndexError"

\* C10 amended: __getitem__(i) returns the record of row i for every i in
\* [0, N), returns the record of row N + i for every i in [-N, 0), and fails
\* with an IndexError for every i >= N and every i < -N.
C10_GetItem ==
    outcome # "none"
    => CASE 0 <= idx /\ idx < Len(df)        -> IsRecordOfRow(idx + 1)
         [] (0 - Len(df)) <= idx /\ idx < 0  -> IsRecordOfRow(Len(df) + idx + 1)
         [] OTHER                            -> outcome = "IndexError"

\* index -1 of a table of two different rows returned its last row
C10_Witness ==
    /\ Len(df) = 2
    /\ df[1] # df[2]
    /\ idx = -1
    /\ outcome = "returned"
    /\ item = [ligand |-> "CCN", protein |-> "MAL", ic50 |-> 20]

(***************************************************************************)
(* Claims about TransformerCollate, checked under SpecCollate.             *)
(***************************************************************************)
\* C11: for any list of B >= 1 records, __call__ returns a batch whose labels
\* have length exactly B with labels[i] the target value of the i-th record
\* (same order, none dropped, duplicated or reordered), and whose input_ids,
\* token_type_ids and attention_mask have leading dimension B.
C11_BatchAligned ==
    collate_outcome = "returned"
    => /\ Len(batches) >= 1
       /\ Len(encodings.labels) = Len(batches)
       /\ \A i \in 1..Len(batches) : encodings.labels[i] = batches[i].ic50
       /\ Len(encodings.input_ids) = Len(batches)
       /\ Len(encodings.token_type_ids) = Len(batches)
       /\ Len(encodings.attention_mask) = Len(batches)

\* a batch of two records with different targets and different token counts,
\* the second row padded
C11_Witness ==
    /\ collate_outcome = "returned"
    /\ Len(batches) = 2
    /\ batches[1].ic50 = 20
    /\ batches[2].ic50 = 10
    /\ encodings.labels = <<20, 10>>
    /\ batches[1].ligand = <<"C", "O">>
    /\ batches[2].ligand = <<"C">>
    /\ batches[1].protein = <<"M">>
    /\ batches[2].protein = <<"M">>
    /\ encodings.attention_mask = <<<<1, 1, 1, 1, 1, 1>>, <<1, 1, 1, 1, 1, 0>>>>

\* a text is empty after stripping whitespace
IsBlank(text) == \A i \in 1..Len(text) : text[i] = " "
HasBlankRecord(list) ==
    \E i \in 1..Len(list) : IsBlank(list[i].ligand) \/ IsBlank(list[i].protein)

\* C12: the collation fails with a TokenizationError, and produces no batch,
\* whenever any record of the list has a ligand or protein that is empty after
\* stripping whitespace; an unloadable tokenizer resource fails at
\* construction, before any batch is collated.
C12_Original ==
    /\ (collate_outcome # "none" /\ HasBlankRecord(batches))
          => collate_outcome = "TokenizationError" /\ encodings = Unset
    /\ (tokenizer # "none" /\ ~path_loads)
          => tokenizer = "error" /\ collate_outcome = "none"

(***************************************************************************)
(* Further claims about train(), checked under SpecTrain.                  *)
(***************************************************************************)
\* a train() call of the early-stopping trainer is at its start
AtRunStart ==
    variant = "early_stop" /\ pc = "for_epoch" /\ epochs_run = 0 /\ runs >= 1

\* C13: for every call of train(), a second or later call on the same
\* IC50BertTrainer included, the early-stop state at the start of the run is
\* min_validation_loss = +infinity and counter = 0, so the first epoch's loss
\* of every run counts as an improvement and no run stops after its first
\* epoch.
C13_Original ==
    /\ AtRunStart => min_validation_loss = PosInf /\ counter = 0
    /\ variant = "early_stop" => stopped_at # 1

(***************************************************************************)
(* The implicit invariant of EarlyStopper, checked under SpecStopper.      *)
(***************************************************************************)
\* every loss of the history is a finite number
AllFinite(s) == \A i \in 1..Len(s) : s[i].kind = "fin"

\* the minimum of a history of finite losses, +infinity for the empty one
MinimumOf(s) ==
    IF s = <<>>
    THEN PosInf
    ELSE CHOOSE m \in {s[i] : i \in 1..Len(s)} :
            \A i \in 1..Len(s) : ~FLt(s[i], m)

\* loss j is strictly below every loss observed before it
StrictlyImproving(s, j) == \A i \in 1..(j - 1) : FLt(s[j], s[i])

\* the position of the most recent strictly improving loss, 0 if none
LastImproving(s) ==
    IF \E j \in 1..Len(s) : StrictlyImproving(s, j)
    THEN CHOOSE j \in 1..Len(s) :
            /\ StrictlyImproving(s, j)
            /\ \A k \in (j + 1)..Len(s) : ~StrictlyImproving(s, k)
    ELSE 0

\* the losses observed since then that exceeded best_loss + min_delta
StaleSince(s, delta) ==
    Cardinality({k \in (LastImproving(s) + 1)..Len(s) :
                    FGt(s[k], FAdd(MinimumOf(s), delta))})

\* C17: after any sequence of early_stop calls with finite losses on a fresh
\* EarlyStopper, min_validation_loss is the minimum of the losses observed so
\* far (+infinity before the first call), it never increases from one call
\* to the next, and counter is >= 0 and equals the number of losses,
\* observed since the most recent strictly improving loss, that exceeded
\* min_validation_loss + min_delta.
C17_StopperInvariant ==
    /\ [](AllFinite(losses)
            => /\ min_validation_loss = MinimumOf(losses)
               /\ counter >= 0
               /\ counter = StaleSince(losses, min_delta))
    /\ [][AllFinite(losses')
            => ~FGt(min_validation_loss', min_validation_loss)]_vars

\* best 4.0 was set by the second of four finite losses; the two losses
\* after it both exceeded 4.0 + 0, the one before it is not counted
C17_Witness ==
    /\ losses = <<Fin(500000), Fin(400000), Fin(420000), Fin(406000)>>
    /\ min_delta = Fin(0)
    /\ patience = 2
    /\ min_validation_loss = Fin(400000)
    /\ counter = 2
    /\ rets = <<FALSE, FALSE, FALSE, TRUE>>

(***************************************************************************)
(* Claims about the batches of an epoch and the optimizer, checked under   *)
(* SpecTrain.                                                              *)
(***************************************************************************)
\* every batch of the current epoch has been processed: all training
\* batches, and all validation batches when a validation source is set
EpochComplete ==
    /\ train_done = dataloader.len
    /\ val_dataloader.present => val_done = val_dataloader.len

\* C14: early stopping is decided only at epoch end.  The early stopper is
\* queried only after every training batch of the epoch has been processed
\* and, when validation is configured, every validation batch has been
\* evaluated; in the epoch at which STOP is signalled all of them have been
\* processed when the loop terminates, each training batch of the call with
\* its optimizer step.
C14_StopAtEpochEnd ==
    /\ []((variant = "early_stop" /\ (pc = "epoch_end" \/ stopped_at > 0))
            => /\ EpochComplete
               /\ epochs_run = epoch + 1
               /\ train_batches = epochs_run * dataloader.len
               /\ steps = train_batches)
    /\ [][(queries' = queries + 1
             \/ counter' # counter
             \/ min_validation_loss' # min_validation_loss)
            => pc = "epoch_end" /\ EpochComplete]_vars

\* the sixth call stops at its second epoch, after both training batches and
\* both validation batches of that epoch
C14_Witness ==
    /\ variant = "early_stop"
    /\ pc = "done"
    /\ runs = 6
    /\ stopped_at = 2
    /\ dataloader = Loader(2)
    /\ val_dataloader = Loader(2)
    /\ train_done = 2
    /\ val_done = 2
    /\ train_batches = 4
    /\ steps = 4

\* the operations C15 orders
IsOrderedOp(op) == op \in {"forward", "loss", "backward", "step"}

\* a step of SpecTrain that processes one training batch
IsTrainBatch == train_batches' = train_batches + 1

\* C15: within each training batch, of either trainer, the operations occur
\* in the order forward pass, loss computation, backward, optimizer step;
\* gradients are zeroed exactly once between the optimizer step of the batch
\* before (if any) and this batch's backward; so the optimizer step applies
\* gradients accumulated from exactly one batch: in the first batch of the
\* run and in the first batch after a validation pass too.
C15_BatchOrder ==
    [][IsTrainBatch
         => /\ SelectSeq(batch_ops', IsOrderedOp)
                  = <<"forward", "loss", "backward", "step">>
            /\ CountOp(batch_ops', "zero_grad") = 1
            /\ optimizer'.zeroed_at_backward = 1
            /\ optimizer'.applied = 1
            /\ steps' = steps + 1]_vars

\* the second call's second epoch has processed its first batch, after the
\* first epoch's validation pass; the gradients of the batch before were
\* still accumulated when this batch began
C15_Witness ==
    /\ variant = "early_stop"
    /\ runs = 2
    /\ epoch = 1
    /\ pc = "for_batch"
    /\ dataloader = Loader(2)
    /\ val_dataloader = Loader(1)
    /\ train_done = 1
    /\ train_batches = 3
    /\ steps = 3
    /\ batch_ops = <<"zero_grad", "forward", "loss", "backward", "step">>
    /\ optimizer = [grad |-> 1, zeroed |-> 0, zeroed_at_backward |-> 1,
                    applied |-> 1]

\* a validation pass is under way or has ended in the current epoch
InOrAfterValidation == val_entry # Unset

\* C16: the validation pass performs no backward computation and no
\* optimizer step.  Throughout a train() call the number of optimizer steps
\* equals the number of training batches processed, and from the start of a
\* validation pass to its end the optimizer, the gradients and the number of
\* steps applied to the model parameters are what they were at its start.
C16_ValidationFrame ==
    /\ steps = train_batches
    /\ InOrAfterValidation
          => /\ val_entry = [optimizer |-> optimizer, steps |-> steps]
             /\ val_done > 0
                   => /\ CountOp(batch_ops, "backward") = 0
                      /\ CountOp(batch_ops, "step") = 0
    /\ (pc = "for_val_batch" \/ val_done > 0) => InOrAfterValidation

\* a call of two epochs has returned; its last validation pass evaluated two
\* batches and left the four optimizer steps of the training batches
C16_Witness ==
    /\ variant = "early_stop"
    /\ pc = "done"
    /\ epochs_run = 2
    /\ dataloader = Loader(2)
    /\ val_dataloader = Loader(2)
    /\ val_done = 2
    /\ train_batches = 4
    /\ steps = 4
    /\ batch_ops = <<"forward", "loss">>
    /\ val_entry = [optimizer |-> optimizer, steps |-> 4]

(***************************************************************************)
(* The bound patience = 10 puts on early stopping, checked under           *)
(* SpecFirstCall.                                                          *)
(***************************************************************************)
\* the loss of epoch e that train() hands to the early stopper
FedHist(e) == IF Truthy(val_dataloader) THEN val_hist[e] ELSE train_hist[e]
\* the losses handed to the early stopper so far in this call
FedSeq == [e \in 1..queries |-> FedHist(e)]

\* what C18 says of the early stopper in the first call: STOP comes at least
\* patience epochs after the last strictly improving loss, so not before
\* epoch 11, and counter never exceeds patience
StopBound ==
    /\ queries > 0 => fed = FedHist(queries)
    /\ stopped_at > 0
          => /\ stopped_at >= LastImproving(FedSeq) + TrainerPatience
             /\ stopped_at >= TrainerPatience + 1
    /\ counter <= patience

\* C18 as stated: in the first train() call of an IC50BertTrainer (patience
\* 10, min_delta 0.05) STOP is only signalled at an epoch preceded by at
\* least 10 epochs since the last strictly improving loss, so never before
\* epoch 11; every run with num_epochs <= 11 records exactly num_epochs
\* entries; counter never exceeds patience during the run.
C18_Original ==
    /\ StopBound
    /\ (Terminal /\ num_epochs <= TrainerPatience + 1)
          => pc = "done" /\ Len(TrainLosses) = num_epochs

\* C18 amended: the same, with "every run with num_epochs <= 11 records
\* exactly num_epochs entries" for a training source with at least one
\* batch; with an empty training source and num_epochs >= 1 the call raises
\* ZeroDivisionError in its first epoch and records nothing.
C18_PatienceBound ==
    /\ StopBound
    /\ (Terminal /\ num_epochs <= TrainerPatience + 1)
          => IF dataloader.len = 0 /\ num_epochs > 0
             THEN pc = "raised" /\ epochs_run = 1 /\ TrainLosses = <<>>
             ELSE pc = "done" /\ Len(TrainLosses) = num_epochs

\* a call of 12 epochs stops at epoch 11: the first epoch's loss 4.00002 is
\* the last improvement, and the ten epochs after it each exceeded it by
\* more than 0.05
C18_Witness ==
    /\ runs = 1
    /\ pc = "done"
    /\ num_epochs = 12
    /\ stopped_at = 11
    /\ epochs_run = 11
    /\ Len(TrainLosses) = 11
    /\ LastImproving(FedSeq) = 1
    /\ min_validation_loss = Fin(400002)
    /\ fed = Fin(420006)
    /\ counter = 10

====
